---- MODULE Spec2Model ----
(***************************************************************************)
(* Anonymous targets of buck2_build_api (analysis/anon_targets.rs):        *)
(* AnonTargetKey construction, memoized resolution through the             *)
(* computation engine, run_analysis, and the AnonTargetsRegistry batch     *)
(* protocol (register / get_promises / run_promises / assert_no_promises). *)
(*                                                                         *)
(* Strings of the program are sequences of one-character strings, e.g.     *)
(* "//f:b" is <<"/","/","f",":","b">>.  Attribute names and error names    *)
(* are atoms; the text an error carries is a sequence.                     *)
(***************************************************************************)
EXTENDS Naturals, Sequences, FiniteSets, TLC

VARIABLES an, memo, promises, ext, lastCall, kin, kout

vars == <<an, memo, promises, ext, lastCall, kin, kout>>

(* ---------------------------- bounds ----------------------------------- *)
\* analyses (run_analysis executions) the engine may start
MaxAnalyses == 3
\* promises allocated over the whole run
MaxPromises == 2
\* eval_anon_target requests issued from outside the registry path
MaxExt == 1

(* ---------------------------- results ---------------------------------- *)
None == [none |-> TRUE]

Ok(v) == [ok |-> TRUE, val |-> v]

\* an error of AnonTargetsError (or an opaque one), with the text it carries
Err(e, text) == [ok |-> FALSE, err |-> e, text |-> text]

\* F applied to the value of v (v is evaluated once, as a `let` binding is)
Let(v, F(_)) == CHOOSE r \in {F(x) : x \in {v}} : TRUE

(* ---------------------------- strings ---------------------------------- *)
SLASH2 == <<"/", "/">>

COLON == <<":">>

\* first index at which pat occurs in s, 0 when it does not occur
FindSub(s, pat) ==
    LET hits == {i \in 1..Len(s) : i + Len(pat) - 1 <= Len(s)
                                   /\ SubSeq(s, i, i + Len(pat) - 1) = pat}
    IN IF hits = {} THEN 0 ELSE CHOOSE i \in hits : \A j \in hits : i <= j

\* split at the first occurrence of pat
split1_opt(s, pat) ==
    Let(FindSub(s, pat), LAMBDA i :
        IF i = 0 THEN None
        ELSE [none |-> FALSE, before |-> SubSeq(s, 1, i - 1),
              after |-> SubSeq(s, i + Len(pat), Len(s))])

HasSuffix(s, suf) ==
    Len(s) >= Len(suf) /\ SubSeq(s, Len(s) - Len(suf) + 1, Len(s)) = suf

\* characters a target name cannot contain
BadTargetChars == {"/", ":", "."}

\* TargetName::new: non-empty, no separator characters
TargetName_new(name) ==
    Let(name, LAMBDA t :
        IF t # <<>> /\ \A i \in 1..Len(t) : t[i] \notin BadTargetChars
        THEN Ok(t) ELSE Err("InvalidTargetName", t))

\* ForwardRelativePath: empty, or segments separated by single slashes, none
\* of them empty, "." or ".."
IsForwardRelativePath(p) ==
    \/ p = <<>>
    \/ /\ p[1] # "/" /\ p[Len(p)] # "/"
       /\ \A i \in 1..(Len(p) - 1) : ~(p[i] = "/" /\ p[i + 1] = "/")
       /\ \A i \in 1..Len(p), j \in 1..Len(p) :
            (/\ i <= j
             /\ (i = 1 \/ p[i - 1] = "/")
             /\ (j = Len(p) \/ p[j + 1] = "/")
             /\ \A k \in i..j : p[k] # "/")
                => SubSeq(p, i, j) \notin {<<".">>, <<".", ".">>}

\* the pattern after the cell alias: package:target, recursive or ambiguous
lex_pattern(x, cell, rest) ==
    Let(split1_opt(rest, COLON), LAMBDA p :
        IF ~p.none
        THEN IF ~IsForwardRelativePath(p.before)
             THEN Err("TargetPatternParseError", x)
             ELSE IF p.after = <<>>
             THEN Ok([cell_alias |-> cell,
                      pattern |-> [kind |-> "Package", package |-> p.before]])
             ELSE Let(TargetName_new(p.after), LAMBDA t :
                      IF t.ok
                      THEN Ok([cell_alias |-> cell,
                               pattern |-> [kind |-> "TargetInPackage",
                                            package |-> p.before,
                                            target |-> t.val]])
                      ELSE Err("TargetPatternParseError", x))
        ELSE IF HasSuffix(rest, <<"/", ".", ".", ".">>) \/ rest = <<".", ".", ".">>
             THEN Ok([cell_alias |-> cell, pattern |-> [kind |-> "Recursive"]])
             ELSE IF rest # <<>>
                  THEN Ok([cell_alias |-> cell, pattern |-> [kind |-> "Ambiguous"]])
                  ELSE Err("TargetPatternParseError", x))

\* lex_target_pattern::<TargetPattern>(x, false)
lex_target_pattern(x) ==
    Let(split1_opt(x, SLASH2), LAMBDA c :
        IF c.none THEN lex_pattern(x, None, x)
        ELSE lex_pattern(x, [none |-> FALSE, v |-> c.before], c.after))

\* PatternDataOrAmbiguous::reject_ambiguity
reject_ambiguity(pattern, x) ==
    IF pattern.kind = "Ambiguous" THEN Err("AmbiguousPattern", x) ELSE Ok(pattern)

TargetLabel_new(cell, package, target) ==
    [cell |-> cell, pkg |-> package, name |-> target]

\* lex.cell_alias.unwrap_or_default()
unwrap_or_default(o) == IF o.none THEN <<>> ELSE o.v

\* TargetLabel's to_string: cell//package:name
TargetLabel_to_string(l) == l.cell \o SLASH2 \o l.pkg \o COLON \o l.name

\* parse_target_label with the ambiguity error replaced by NotTargetLabel
parse_target_label_ctx(text) ==
    Let(text, LAMBDA x :
    Let(lex_target_pattern(x), LAMBDA lex :
        IF ~lex.ok THEN Err("NotTargetLabel", x)
        ELSE IF lex.val.pattern.kind = "TargetInPackage"
             THEN Ok(TargetLabel_new(unwrap_or_default(lex.val.cell_alias),
                                     lex.val.pattern.package,
                                     lex.val.pattern.target))
             ELSE Err("NotTargetLabel", x)))

\* parse_target_label dropping the cell alias
parse_target_label_nocell(text) ==
    Let(text, LAMBDA x :
    Let(lex_target_pattern(x), LAMBDA lex :
        IF ~lex.ok THEN Err("NotTargetLabel", x)
        ELSE Let(reject_ambiguity(lex.val.pattern, x), LAMBDA pat :
                 IF ~pat.ok THEN pat
                 ELSE IF pat.val.kind = "TargetInPackage"
                      THEN Ok(TargetLabel_new(<<>>, pat.val.package, pat.val.target))
                      ELSE Err("NotTargetLabel", x))))

parse_target_label(text) ==
    Let(text, LAMBDA x :
    Let(lex_target_pattern(x), LAMBDA lex :
        IF ~lex.ok THEN Err("NotTargetLabel", x)
        ELSE Let(reject_ambiguity(lex.val.pattern, x), LAMBDA pat :
                 IF ~pat.ok THEN pat
                 ELSE IF pat.val.kind = "TargetInPackage"
                      THEN Ok(TargetLabel_new(unwrap_or_default(lex.val.cell_alias),
                                              pat.val.package, pat.val.target))
                      ELSE Err("NotTargetLabel", x))))

create_name(rule_name) ==
    Let(TargetName_new(rule_name), LAMBDA t :
        IF t.ok THEN Ok(TargetLabel_new(<<"a", "n", "o", "n">>, <<>>, t.val)) ELSE t)

(* ------------------------ starlark values ------------------------------ *)
VLabel(l) == [t |-> "label", v |-> l]

VStr(s) == [t |-> "string", v |-> s]

VInt(n) == [t |-> "int", v |-> n]

coerce_name(value) ==
    Let(value, LAMBDA x :
        IF x.t = "label" THEN Ok(x.v)
        ELSE IF x.t = "string" THEN parse_target_label(x.v)
        ELSE Err("InvalidNameType", x))

(* --------------------- restricted coercion context --------------------- *)
\* a coerce_label that parses the string, as ordinary target coercion does
AnonAttrCtx_coerce_label_parsing(value) ==
    Let(parse_target_label(value), LAMBDA l : IF l.ok THEN Ok(VLabel(l.val)) ELSE l)

AnonAttrCtx_coerce_label(value) == Err("CantParseDuringCoerce", value)

AnonAttrCtx_coerce_path(value, allow_directory) == Err("CantParseDuringCoerce", value)

AnonAttrCtx_coerce_target_pattern(pattern) == Err("CantParseDuringCoerce", pattern)

AnonAttrCtx_visit_query_function_literals(query) == Err("CantParseDuringCoerce", query)

\* attr.coercer.coerce_item(AttrIsConfigurable::No, &ctx, x) then configure
coerce_attr(attr, value) ==
    Let(value, LAMBDA x :
        IF attr = "int"
        THEN IF x.t = "int" THEN Ok(x) ELSE Err("CoercionError", x)
        ELSE IF attr = "label"
             THEN IF x.t = "string" THEN AnonAttrCtx_coerce_label(x.v)
                  ELSE IF x.t = "label" THEN Ok(x) ELSE Err("CoercionError", x)
             ELSE Err("CoercionError", x))

(* ------------------------------ rules ----------------------------------- *)
\* the rule callables of the build: rule type name and attribute schema
Rules == {"r", "q"}

rule_type(rule) == IF rule = "r" THEN <<"r">> ELSE <<"q">>

\* rule.attributes(): attribute name -> declared attribute type
attributes(rule) ==
    IF rule = "r" THEN [a |-> "int", b |-> "int", dep |-> "label"]
    ELSE [a |-> "int"]

\* AttributeSpec::attribute(k)
attribute(attrs_spec, k) ==
    IF k \in DOMAIN attrs_spec THEN [none |-> FALSE, v |-> attrs_spec[k]] ELSE None

(* --------------------------- ordered maps ------------------------------- *)
\* OrderedMap::insert: replaces the value of a present key in place, appends
\* an absent one
OrderedMap_insert(map, k, v) ==
    Let(map, LAMBDA m :
        IF \E i \in 1..Len(m) : m[i][1] = k
        THEN [i \in 1..Len(m) |-> IF m[i][1] = k THEN <<k, v>> ELSE m[i]]
        ELSE Append(m, <<k, v>>))

\* String's Ord on the attribute names of the model
NameRank(k) ==
    CASE k = "a" -> 1 [] k = "b" -> 2 [] k = "dep" -> 3 [] k = "name" -> 4
      [] OTHER -> 5

\* OrderedMap -> SortedMap (attrs.into()): the entries ordered by key
IntoSortedMap(map) ==
    Let(map, LAMBDA m :
        [p \in 1..Len(m) |->
            m[CHOOSE i \in 1..Len(m) :
                Cardinality({j \in 1..Len(m) :
                                NameRank(m[j][1]) < NameRank(m[i][1])}) + 1 = p]])

(* --------------------------- AnonTargetKey ------------------------------ *)
\* ExecutionPlatformResolution::cfg
cfg(execution_platform) == execution_platform.cfg

AnonTarget_new(rt, name, attrs, exec_cfg) ==
    [rule_type |-> rt, name |-> name, attrs |-> attrs, exec_cfg |-> exec_cfg]

\* the loop without the `else`: a "name" entry also goes into attrs
RECURSIVE new_loop_keep_name(_, _, _, _)
new_loop_keep_name(rule, entries, i, state) ==
    Let(state, LAMBDA st :
        IF i > Len(entries) THEN Ok(st)
        ELSE Let(entries[i], LAMBDA kv :
             IF kv[1] = "name"
             THEN Let(coerce_name(kv[2]), LAMBDA n :
                      IF ~n.ok THEN n
                      ELSE new_loop_keep_name(rule, entries, i + 1,
                               [name  |-> [none |-> FALSE, v |-> n.val],
                                attrs |-> OrderedMap_insert(st.attrs, kv[1],
                                                            VLabel(n.val))]))
             ELSE Let(attribute(attributes(rule), kv[1]), LAMBDA attr :
                      IF attr.none THEN Err("UnknownAttribute", <<kv[1]>>)
                      ELSE Let(coerce_attr(attr.v, kv[2]), LAMBDA c :
                               IF ~c.ok THEN c
                               ELSE new_loop_keep_name(rule, entries, i + 1,
                                        [st EXCEPT !.attrs =
                                            OrderedMap_insert(@, kv[1], c.val)])))))

\* the `for (k, v) in entries` loop of AnonTargetKey::new from entry i on;
\* st is the loop's state: name and attrs
RECURSIVE new_loop(_, _, _, _)
new_loop(rule, entries, i, state) ==
    Let(state, LAMBDA st :
        IF i > Len(entries) THEN Ok(st)
        ELSE Let(entries[i], LAMBDA kv :
             IF kv[1] = "name"
             THEN Let(coerce_name(kv[2]), LAMBDA n :
                      IF ~n.ok THEN n
                      ELSE new_loop(rule, entries, i + 1,
                                    [st EXCEPT !.name = [none |-> FALSE, v |-> n.val]]))
             ELSE Let(attribute(attributes(rule), kv[1]), LAMBDA attr :
                      IF attr.none THEN Err("UnknownAttribute", <<kv[1]>>)
                      ELSE Let(coerce_attr(attr.v, kv[2]), LAMBDA c :
                               IF ~c.ok THEN c
                               ELSE new_loop(rule, entries, i + 1,
                                        [st EXCEPT !.attrs =
                                            OrderedMap_insert(@, kv[1], c.val)])))))

\* AnonTargetKey::new keeping the attributes in insertion order
AnonTargetKey_new_unsorted(execution_platform, rule, attrs_in) ==
    Let(attrs_in, LAMBDA entries :
    Let(new_loop(rule, entries, 1, [name |-> None, attrs |-> <<>>]), LAMBDA l :
        IF ~l.ok THEN l
        ELSE Let(IF l.val.name.none THEN create_name(rule_type(rule))
                 ELSE Ok(l.val.name.v), LAMBDA name :
                 IF ~name.ok THEN name
                 ELSE Ok(AnonTarget_new(rule_type(rule), name.val, l.val.attrs,
                                        cfg(execution_platform))))))

AnonTargetKey_new(execution_platform, rule, attrs_in) ==
    Let(attrs_in, LAMBDA entries :
    Let(new_loop(rule, entries, 1, [name |-> None, attrs |-> <<>>]), LAMBDA l :
        IF ~l.ok THEN l
        ELSE Let(IF l.val.name.none THEN create_name(rule_type(rule))
                 ELSE Ok(l.val.name.v), LAMBDA name :
                 IF ~name.ok THEN name
                 ELSE Ok(AnonTarget_new(rule_type(rule), name.val,
                                        IntoSortedMap(l.val.attrs),
                                        cfg(execution_platform))))))

(* ------------------------- AnonTargetsRegistry -------------------------- *)
Unit == "unit"

AnonTargetsRegistry_new(execution_platform) ==
    [execution_platform |-> execution_platform, entries |-> <<>>]

\* register that pushes the entry before the key is known to be good
register_push_first(self, promise, rule, attrs_in) ==
    Let(AnonTargetKey_new(self.execution_platform, rule, attrs_in), LAMBDA key :
        [self |-> [self EXCEPT !.entries =
                      Append(@, <<promise, IF key.ok THEN key.val ELSE None>>)],
         res  |-> IF key.ok THEN Ok(Unit) ELSE key])

register(self, promise, rule, attrs_in) ==
    Let(AnonTargetKey_new(self.execution_platform, rule, attrs_in), LAMBDA key :
        IF ~key.ok THEN [self |-> self, res |-> key]
        ELSE [self |-> [self EXCEPT !.entries = Append(@, <<promise, key.val>>)],
              res  |-> Ok(Unit)])

\* get_promises that hands out the first entry only and drops the others
get_promises_lossy(self) ==
    IF self.entries = <<>> THEN [self |-> self, out |-> None]
    ELSE [self |-> AnonTargetsRegistry_new(self.execution_platform),
          out  |-> [none |-> FALSE,
                    v |-> [self EXCEPT !.entries = <<self.entries[1]>>]]]

\* get_promises that hands the entries out and keeps them
get_promises_keep(self) ==
    IF self.entries = <<>> THEN [self |-> self, out |-> None]
    ELSE [self |-> self, out |-> [none |-> FALSE, v |-> self]]

get_promises(self) ==
    IF self.entries = <<>> THEN [self |-> self, out |-> None]
    ELSE [self |-> AnonTargetsRegistry_new(self.execution_platform),
          out  |-> [none |-> FALSE, v |-> self]]

\* assert_no_promises with the test inverted
assert_no_promises_inverted(self) ==
    IF self.entries # <<>> THEN Ok(Unit)
    ELSE Err("AssertNoPromisesFailed", <<>>)

assert_no_promises(self) ==
    IF self.entries = <<>> THEN Ok(Unit)
    ELSE Err("AssertNoPromisesFailed", <<>>)

(* ----------------------------- promises --------------------------------- *)
\* StarlarkPromise::resolve: a promise takes a value once
promise_resolve(p, x) ==
    IF ~p.val.none THEN [p |-> p, res |-> Err("CannotResolveTwice", <<>>)]
    ELSE [p |-> [p EXCEPT !.val = [none |-> FALSE, v |-> x], !.n = @ + 1],
          res |-> Ok(Unit)]

(* ------------------------- computation engine --------------------------- *)
\* the analysis the engine's table holds for key k, 0 when it holds none
MemoGet(k) ==
    IF \E i \in 1..Len(memo) : memo[i].key = k
    THEN memo[CHOOSE i \in 1..Len(memo) : memo[i].key = k].inst
    ELSE 0

\* DiceComputations::compute(key): the computation already in the table for
\* an equal key is shared, otherwise a new one is started
dice_compute(k) ==
    IF MemoGet(k) # 0 THEN [inst |-> MemoGet(k), isNew |-> FALSE]
    ELSE [inst |-> Len(an) + 1, isNew |-> TRUE]

\* an equality that compares the two results
equality_structural(x, y) == x = y

\* Key::equality of AnonTargetKey
equality(x, y) == FALSE

\* the engine after a recomputation: dependents see a change unless the key's
\* equality says the new result equals the old one
dice_changed(old, new) == ~equality(old, new)

\* resolve that runs the analysis itself instead of asking the engine
resolve_direct(self) == [inst |-> Len(an) + 1, isNew |-> TRUE]

\* AnonTargetKey::resolve: the analysis whose result the caller awaits
resolve(self) == dice_compute(self)

\* find_execution_platform_by_configuration(dice, exec_cfg, exec_cfg)
find_execution_platform_by_configuration(exec_cfg) == [cfg |-> exec_cfg]

AnalysisResult_new(k, a) == Ok([provider_collection |-> [key |-> k, by |-> a]])

\* run_analysis_impl up to the call of the rule implementation
NewAnalysis(k) ==
    [key    |-> k,
     pc     |-> "invoke",
     reg    |-> AnonTargetsRegistry_new(
                    find_execution_platform_by_configuration(k.exec_cfg)),
     batch  |-> None,
     req    |-> <<>>,
     vals   |-> <<>>,
     done   |-> <<>>,
     idx    |-> 0,
     result |-> None]

\* run_analysis_impl without the call of ctx.run_promises
run_analysis_impl_next_nodrain(stmt) ==
    CASE stmt = "invoke"       -> "freeze"
      [] stmt = "run_promises" -> "freeze"
      [] stmt = "freeze"       -> "done"

\* the statements of run_analysis_impl from rule_impl.invoke on
run_analysis_impl_next(stmt) ==
    CASE stmt = "invoke"       -> "run_promises"
      [] stmt = "run_promises" -> "freeze"
      [] stmt = "freeze"       -> "done"

\* AnalysisContext::run_promises: drain while get_promises returns a batch
ctx_run_promises(got) == IF got.out.none THEN "return" ELSE "drain"

\* a join that never returns the values
try_join_all_pending(vals) ==
    IF \E i \in 1..Len(vals) : ~vals[i].none /\ ~vals[i].v.ok THEN "failed"
    ELSE "resolving"

\* a join that lets binding start while keys are still resolving
try_join_all_streaming(vals) ==
    IF \E i \in 1..Len(vals) : ~vals[i].none /\ ~vals[i].v.ok THEN "failed"
    ELSE "binding"

\* future::try_join_all(...).await? over the results received so far
try_join_all(vals) ==
    IF \E i \in 1..Len(vals) : ~vals[i].none /\ ~vals[i].v.ok THEN "failed"
    ELSE IF \A i \in 1..Len(vals) : ~vals[i].none THEN "binding"
    ELSE "resolving"

\* the loop resolving a promise that lives in another analysis's environment
run_promises_step_foreign(self, values, i) ==
    [self    |-> self,
     promise |-> IF \E p \in 1..Len(promises) :
                       promises[p].owner # promises[self.entries[i][1]].owner
                 THEN CHOOSE p \in 1..Len(promises) :
                       promises[p].owner # promises[self.entries[i][1]].owner
                 ELSE self.entries[i][1],
     val     |-> values[i].v.val.provider_collection]

\* the loop walking the entries from the last to the first
run_promises_step_reversed(self, values, i) ==
    [self    |-> self,
     promise |-> self.entries[Len(self.entries) + 1 - i][1],
     val     |-> values[Len(self.entries) + 1 - i].v.val.provider_collection]

\* the loop pairing every promise with the first value
run_promises_step_first(self, values, i) ==
    [self    |-> self,
     promise |-> self.entries[i][1],
     val     |-> values[1].v.val.provider_collection]

\* the loop taking each promise out of its entry as it binds it
run_promises_step_consuming(self, values, i) ==
    [self    |-> [self EXCEPT !.entries =
                     [j \in 1..Len(@) |-> IF j = i THEN <<0, @[j][2]>> ELSE @[j]]],
     promise |-> self.entries[i][1],
     val     |-> values[i].v.val.provider_collection]

\* one iteration of `for ((promise, _), val) in self.entries.iter().zip(values)`
run_promises_step(self, values, i) ==
    [self    |-> self,
     promise |-> self.entries[i][1],
     val     |-> values[i].v.val.provider_collection]

(* ------------------------------ inputs ---------------------------------- *)
L_fb == <<"/", "/", "f", ":", "b">>

\* the anon_target calls rule implementations and promise callbacks make
RegInputs ==
    { [rule |-> "r", attrs |-> << <<"a", VInt(1)>>, <<"b", VInt(2)>> >>],
      [rule |-> "r", attrs |-> << <<"b", VInt(2)>>, <<"a", VInt(1)>> >>],
      [rule |-> "r", attrs |-> << <<"name", VStr(L_fb)>> >>],
      [rule |-> "q", attrs |-> << <<"a", VInt(1)>> >>],
      [rule |-> "r", attrs |-> << <<"zz", VInt(1)>> >>],
      [rule |-> "r", attrs |-> << <<"a", VInt(1)>>, <<"name", VStr(<<"f">>)>> >>] }

\* the targets eval_anon_target is called with
ExtTargets ==
    { AnonTargetKey_new([cfg |-> "c1"], i.rule, i.attrs).val :
        i \in {j \in RegInputs : AnonTargetKey_new([cfg |-> "c1"], j.rule, j.attrs).ok} }

(* ------------------------------- state ---------------------------------- *)
Init ==
    /\ an = <<>>
    /\ memo = <<>>
    /\ promises = <<>>
    /\ ext = <<>>
    /\ lastCall = None
    /\ kin = None
    /\ kout = None

Finished(a) == a \in 1..Len(an) /\ an[a].pc \in {"done", "failed"}

\* `an` and `memo` after a resolve that answered r for key k
AnAfter(r, k) == IF r.isNew THEN Append(an, NewAnalysis(k)) ELSE an

MemoAfter(r, k) ==
    IF r.isNew THEN Append(memo, [key |-> k, inst |-> r.inst]) ELSE memo

(* ------------------------------ actions --------------------------------- *)
\* eval_anon_target(dice, target)
EvalAnonTarget(t) ==
    /\ Len(ext) < MaxExt
    /\ LET r == resolve(t)
       IN /\ r.isNew => Len(an) < MaxAnalyses
          /\ an' = AnAfter(r, t)
          /\ memo' = MemoAfter(r, t)
          /\ ext' = Append(ext, [key |-> t, inst |-> r.inst, res |-> None])
    /\ lastCall' = None
    /\ UNCHANGED <<promises, kin, kout>>

\* the engine hands the finished computation's value to eval_anon_target
EvalAnonTargetDone(e) ==
    /\ e \in 1..Len(ext)
    /\ ext[e].res.none
    /\ Finished(ext[e].inst)
    /\ ext' = [ext EXCEPT ![e].res = [none |-> FALSE, v |-> an[ext[e].inst].result]]
    /\ lastCall' = None
    /\ UNCHANGED <<an, memo, promises, kin, kout>>

\* ctx.actions.anon_target(rule, attrs) from the rule implementation or from a
\* callback of a promise run_promises has bound: a fresh promise is registered
Register(a, inp) ==
    /\ a \in 1..Len(an)
    /\ \/ an[a].pc = "invoke"
       \/ an[a].pc = "binding" /\ an[a].idx > 1
    /\ Len(promises) < MaxPromises
    /\ LET p == Len(promises) + 1
           r == register(an[a].reg, p, inp.rule, inp.attrs)
       IN /\ an' = [an EXCEPT ![a].reg = r.self]
          /\ promises' =
                IF r.res.ok
                THEN Append(promises, [owner |-> a, at |-> an[a].pc,
                                       val |-> None, n |-> 0,
                                       key |-> r.self.entries[Len(r.self.entries)][2]])
                ELSE promises
          /\ lastCall' = [none |-> FALSE, op |-> "register", a |-> a, promise |-> p,
                          pre |-> an[a].reg, post |-> r.self, res |-> r.res]
    /\ UNCHANGED <<memo, ext, kin, kout>>

\* assert_no_promises, called on the registry where user code can have
\* registered: during the rule implementation or between promise callbacks
AssertNoPromises(a) ==
    /\ a \in 1..Len(an)
    /\ an[a].pc \in {"invoke", "binding"}
    /\ lastCall' = [none |-> FALSE, op |-> "assert_no_promises", a |-> a,
                    pre |-> an[a].reg, post |-> an[a].reg,
                    res |-> assert_no_promises(an[a].reg)]
    /\ UNCHANGED <<an, memo, promises, ext, kin, kout>>

\* rule_impl.invoke returns the provider list
InvokeReturn(a) ==
    /\ a \in 1..Len(an)
    /\ an[a].pc = "invoke"
    /\ an' = [an EXCEPT ![a].pc = run_analysis_impl_next("invoke")]
    /\ lastCall' = None
    /\ UNCHANGED <<memo, promises, ext, kin, kout>>

\* an error of get_rule_impl, attribute resolution, the platform lookup, the
\* rule implementation, or of try_from_value / finalize / take_result
Fail(a) ==
    /\ a \in 1..Len(an)
    /\ an[a].pc \in {"invoke", "freeze"}
    /\ an' = [an EXCEPT ![a].pc = "failed",
                        ![a].result = Err("AnalysisError", <<>>)]
    /\ lastCall' = None
    /\ UNCHANGED <<memo, promises, ext, kin, kout>>

\* one turn of the loop of ctx.run_promises: get_promises, then either the
\* return to run_analysis_impl or the start of run_promises on the batch
GetPromises(a) ==
    /\ a \in 1..Len(an)
    /\ an[a].pc = "run_promises"
    /\ LET got == get_promises(an[a].reg)
       IN /\ an' = IF ctx_run_promises(got) = "return"
                   THEN [an EXCEPT ![a].reg = got.self,
                                   ![a].pc = run_analysis_impl_next("run_promises")]
                   ELSE LET n == Len(got.out.v.entries)
                            vals0 == [i \in 1..n |-> None]
                        IN [an EXCEPT ![a].reg = got.self,
                                      ![a].batch = got.out,
                                      ![a].req = [i \in 1..n |-> 0],
                                      ![a].vals = vals0,
                                      ![a].done = <<>>,
                                      ![a].idx = 1,
                                      ![a].pc = try_join_all(vals0)]
          /\ lastCall' = [none |-> FALSE, op |-> "get_promises", a |-> a,
                          pre |-> an[a].reg, post |-> got.self, out |-> got.out]
    /\ UNCHANGED <<memo, promises, ext, kin, kout>>

\* try_join_all polls target.resolve(dice) of entry i for the first time; it
\* polls the futures in the order of the entries
Request(a, i) ==
    /\ a \in 1..Len(an)
    /\ an[a].pc \in {"resolving", "binding"}
    /\ i \in 1..Len(an[a].req)
    /\ an[a].req[i] = 0
    /\ \A j \in 1..(i - 1) : an[a].req[j] # 0
    /\ LET k == an[a].batch.v.entries[i][2]
           r == resolve(k)
       IN /\ r.isNew => Len(an) < MaxAnalyses
          /\ an' = [AnAfter(r, k) EXCEPT ![a].req[i] = r.inst]
          /\ memo' = MemoAfter(r, k)
    /\ lastCall' = None
    /\ UNCHANGED <<promises, ext, kin, kout>>

\* the resolution of entry i finishes; try_join_all returns at the first
\* error, or once every entry has a value
Complete(a, i) ==
    /\ a \in 1..Len(an)
    /\ an[a].pc \in {"resolving", "binding"}
    /\ i \in 1..Len(an[a].req)
    /\ an[a].req[i] # 0
    /\ an[a].vals[i].none
    /\ Finished(an[a].req[i])
    /\ LET res   == an[an[a].req[i]].result
           vals1 == [an[a].vals EXCEPT ![i] = [none |-> FALSE, v |-> res]]
           ph    == try_join_all(vals1)
       IN an' = [an EXCEPT ![a].vals = vals1,
                           ![a].done = Append(@, i),
                           ![a].pc = ph,
                           ![a].result = IF ph = "failed" THEN res ELSE @]
    /\ lastCall' = None
    /\ UNCHANGED <<memo, promises, ext, kin, kout>>

\* the binding loop going on to the next entry after promise.resolve failed
Bind_swallow(a, cb) ==
    /\ a \in 1..Len(an)
    /\ an[a].pc = "binding"
    /\ an[a].idx <= Len(an[a].batch.v.entries)
    /\ ~an[a].vals[an[a].idx].none
    /\ LET st == run_promises_step(an[a].batch.v, an[a].vals, an[a].idx)
           pr == promise_resolve(promises[st.promise], st.val)
       IN /\ promises' = [promises EXCEPT ![st.promise] = pr.p]
          /\ an' = IF pr.res.ok /\ cb
                   THEN [an EXCEPT ![a].batch.v = st.self, ![a].idx = @ + 1]
                   ELSE [an EXCEPT ![a].batch.v = st.self,
                                   ![a].idx = @ + 1,
                                   ![a].result = IF pr.res.ok
                                                 THEN Err("CallbackError", <<>>)
                                                 ELSE pr.res]
    /\ lastCall' = None
    /\ UNCHANGED <<memo, ext, kin, kout>>

\* one iteration of the binding loop; cb is whether the callbacks promise.resolve
\* runs succeed
Bind(a, cb) ==
    /\ a \in 1..Len(an)
    /\ an[a].pc = "binding"
    /\ an[a].idx <= Len(an[a].batch.v.entries)
    /\ ~an[a].vals[an[a].idx].none
    /\ LET st == run_promises_step(an[a].batch.v, an[a].vals, an[a].idx)
           pr == promise_resolve(promises[st.promise], st.val)
       IN /\ promises' = [promises EXCEPT ![st.promise] = pr.p]
          /\ an' = IF pr.res.ok /\ cb
                   THEN [an EXCEPT ![a].batch.v = st.self, ![a].idx = @ + 1]
                   ELSE [an EXCEPT ![a].batch.v = st.self,
                                   ![a].pc = "failed",
                                   ![a].result = IF pr.res.ok
                                                 THEN Err("CallbackError", <<>>)
                                                 ELSE pr.res]
    /\ lastCall' = None
    /\ UNCHANGED <<memo, ext, kin, kout>>

\* run_promises returns Ok(()): back to the loop of ctx.run_promises
RunPromisesReturn(a) ==
    /\ a \in 1..Len(an)
    /\ an[a].pc = "binding"
    /\ an[a].idx > Len(an[a].batch.v.entries)
    /\ an' = [an EXCEPT ![a].pc = "run_promises", ![a].batch = None,
                        ![a].req = <<>>, ![a].vals = <<>>, ![a].done = <<>>,
                        ![a].idx = 0]
    /\ lastCall' = None
    /\ UNCHANGED <<memo, promises, ext, kin, kout>>

\* finalize freezes the environment; the result is packaged
Freeze(a) ==
    /\ a \in 1..Len(an)
    /\ an[a].pc = "freeze"
    /\ an' = [an EXCEPT ![a].pc = run_analysis_impl_next("freeze"),
                        ![a].result = AnalysisResult_new(an[a].key, a)]
    /\ lastCall' = None
    /\ UNCHANGED <<memo, promises, ext, kin, kout>>

Next ==
    \/ \E t \in ExtTargets : EvalAnonTarget(t)
    \/ \E e \in 1..MaxExt : EvalAnonTargetDone(e)
    \/ \E a \in 1..MaxAnalyses, inp \in RegInputs : Register(a, inp)
    \/ \E a \in 1..MaxAnalyses : AssertNoPromises(a)
    \/ \E a \in 1..MaxAnalyses : InvokeReturn(a)
    \/ \E a \in 1..MaxAnalyses : Fail(a)
    \/ \E a \in 1..MaxAnalyses : GetPromises(a)
    \/ \E a \in 1..MaxAnalyses, i \in 1..MaxPromises : Request(a, i)
    \/ \E a \in 1..MaxAnalyses, i \in 1..MaxPromises : Complete(a, i)
    \/ \E a \in 1..MaxAnalyses, cb \in BOOLEAN : Bind(a, cb)
    \/ \E a \in 1..MaxAnalyses : RunPromisesReturn(a)
    \/ \E a \in 1..MaxAnalyses : Freeze(a)

Spec == Init /\ [][Next]_vars

(* ------------------ AnonTargetKey::new on its own ----------------------- *)
\* the values an attribute mapping may give each name
KeyValues(k) ==
    CASE k = "name" -> <<VStr(L_fb), VStr(<<"f">>),
                         VLabel(TargetLabel_new(<<"c">>, <<"p">>, <<"t">>))>>
      [] k = "a"    -> <<VInt(1), VInt(2)>>
      [] k = "dep"  -> <<VLabel(TargetLabel_new(<<>>, <<"f">>, <<"b">>)), VStr(L_fb)>>
      [] k = "zz"   -> <<VInt(1)>>

KeyNames == {"name", "a", "dep", "zz"}

KeyCfgs == {"c1", "c2"}

\* the attribute mappings: for each name of a subset of KeyNames, which of
\* its values it has
Dicts ==
    UNION { {d \in [ks -> 1..3] : \A k \in ks : d[k] <= Len(KeyValues(k))} :
            ks \in SUBSET KeyNames }

\* the orders in which a dict of the names ks can be iterated
Orders(ks) ==
    {o \in [1..Cardinality(ks) -> ks] : \A i, j \in DOMAIN o : i # j => o[i] # o[j]}

\* collect_entries of the dict d iterated in the order o
Entries(d, o) == [i \in DOMAIN o |-> <<o[i], KeyValues(o[i])[d[o[i]]]>>]

\* two calls of AnonTargetKey::new with the same platform, rule and mapping,
\* the mapping iterated in two orders
InitKey ==
    /\ an = <<>>
    /\ memo = <<>>
    /\ promises = <<>>
    /\ ext = <<>>
    /\ lastCall = None
    /\ \E c \in KeyCfgs, r \in Rules, d \in Dicts :
         \E o1 \in Orders(DOMAIN d), o2 \in Orders(DOMAIN d) :
             kin = [platform |-> [cfg |-> c], rule |-> r,
                    attrs1 |-> Entries(d, o1), attrs2 |-> Entries(d, o2)]
    /\ kout = <<None, None>>

\* the j-th call of AnonTargetKey::new
KeyNew(j) ==
    /\ kout[j].none
    /\ kout' = [kout EXCEPT ![j] =
                  [none |-> FALSE,
                   v |-> AnonTargetKey_new(kin.platform, kin.rule,
                                           IF j = 1 THEN kin.attrs1 ELSE kin.attrs2)]]
    /\ UNCHANGED <<an, memo, promises, ext, lastCall, kin>>

NextKey == \E j \in 1..2 : KeyNew(j)

SpecKey == InitKey /\ [][NextKey]_vars

(* ------------------------- scheduling of Spec --------------------------- *)
\* the executor keeps polling a future that can make progress, and a rule
\* implementation returns or fails: each analysis's next statement is taken
Fairness ==
    \A a \in 1..MaxAnalyses :
        /\ WF_vars(InvokeReturn(a) \/ Fail(a) \/ Freeze(a))
        /\ WF_vars(GetPromises(a))
        /\ WF_vars(\E i \in 1..MaxPromises : Request(a, i))
        /\ WF_vars(\E i \in 1..MaxPromises : Complete(a, i))
        /\ WF_vars(\E cb \in BOOLEAN : Bind(a, cb))
        /\ WF_vars(RunPromisesReturn(a))

SpecLive == Init /\ [][Next]_vars /\ Fairness

(* ------------------- the pure operations on their own ------------------- *)
\* longest text given to the parser
MaxLen == 6

Chars == {"/", ":", ".", "f"}

Texts == UNION {[1..n -> Chars] : n \in 0..MaxLen}

\* the texts given to the coercion context and as attribute values
ShortTexts == {t \in Texts : Len(t) <= 3}

\* results the engine may compare: successful analysis results
EqResults == {AnalysisResult_new(k, a) : k \in ExtTargets, a \in 1..2}

CtxMethods == {"coerce_label", "coerce_path", "coerce_target_pattern",
               "visit_query_function_literals"}

\* the context method m applied to text s
CtxCall(m, s) ==
    CASE m = "coerce_label" -> AnonAttrCtx_coerce_label(s)
      [] m = "coerce_path" -> AnonAttrCtx_coerce_path(s, TRUE)
      [] m = "coerce_target_pattern" -> AnonAttrCtx_coerce_target_pattern(s)
      [] m = "visit_query_function_literals" ->
            AnonAttrCtx_visit_query_function_literals(s)

\* registries a register call may find: empty or with one pending entry
FnRegistries ==
    { AnonTargetsRegistry_new([cfg |-> "c1"]),
      [AnonTargetsRegistry_new([cfg |-> "c1"]) EXCEPT
          !.entries = <<<<1, CHOOSE k \in ExtTargets : TRUE>>>>] }

\* attribute mappings with a string for the label-typed attribute dep
FnAttrs(s) ==
    << << <<"dep", VStr(s)>> >>,
       << <<"a", VInt(1)>>, <<"dep", VStr(s)>> >>,
       << <<"dep", VStr(s)>>, <<"zz", VInt(1)>> >>,
       << <<"dep", VLabel(TargetLabel_new(<<>>, <<"f">>, <<"f">>))>> >> >>

InitFn ==
    /\ an = <<>>
    /\ memo = <<>>
    /\ promises = <<>>
    /\ ext = <<>>
    /\ lastCall = None
    /\ \/ \E s \in Texts : kin = [op |-> "parse_target_label", text |-> s]
       \/ \E x \in EqResults, y \in EqResults :
            kin = [op |-> "equality", x |-> x, y |-> y]
       \/ \E m \in CtxMethods, s \in ShortTexts :
            kin = [op |-> "coerce", method |-> m, text |-> s]
       \/ \E reg \in FnRegistries, s \in ShortTexts :
            \E n \in DOMAIN FnAttrs(s) :
                kin = [op |-> "register", reg |-> reg, text |-> s,
                       attrs |-> FnAttrs(s)[n]]
    /\ kout = None

FnParseTargetLabel ==
    /\ kin.op = "parse_target_label"
    /\ kout.none
    /\ kout' = [none |-> FALSE, v |-> parse_target_label(kin.text)]
    /\ UNCHANGED <<an, memo, promises, ext, lastCall, kin>>

\* the engine compares the result of a recomputation with the old one
FnEquality ==
    /\ kin.op = "equality"
    /\ kout.none
    /\ kout' = [none |-> FALSE, v |-> equality(kin.x, kin.y),
                changed |-> dice_changed(kin.x, kin.y)]
    /\ UNCHANGED <<an, memo, promises, ext, lastCall, kin>>

\* a coercer asks the context to resolve a text
FnCtxCoerce ==
    /\ kin.op = "coerce"
    /\ kout.none
    /\ kout' = [none |-> FALSE, v |-> CtxCall(kin.method, kin.text)]
    /\ UNCHANGED <<an, memo, promises, ext, lastCall, kin>>

FnRegister ==
    /\ kin.op = "register"
    /\ kout.none
    /\ kout' = [none |-> FALSE, v |-> register(kin.reg, 2, "r", kin.attrs)]
    /\ UNCHANGED <<an, memo, promises, ext, lastCall, kin>>

NextFn == FnParseTargetLabel \/ FnEquality \/ FnCtxCoerce \/ FnRegister

SpecFn == InitFn /\ [][NextFn]_vars

(* ---------------------------- properties -------------------------------- *)
Analyses == 1..Len(an)

Draining(a) == a \in Analyses /\ ~an[a].batch.none

BatchEntries(a) == an[a].batch.v.entries

Bound(p) == ~promises[p].val.none

\* C1: within a batch being drained, whenever the promise of entry j is
\* bound, the promise of every earlier entry i < j is bound already, whatever
\* the order in which the keys finished resolving.
C1_BindInRegistrationOrder ==
    \A a \in Analyses :
        Draining(a) =>
            \A i, j \in 1..Len(BatchEntries(a)) :
                (i < j /\ Bound(BatchEntries(a)[j][1])) => Bound(BatchEntries(a)[i][1])

\* a batch of two or more entries whose keys finished in another order than
\* they were registered in, with every promise bound
C1_Witness ==
    \E a \in Analyses :
        /\ Draining(a)
        /\ Len(BatchEntries(a)) >= 2
        /\ Len(an[a].done) = Len(BatchEntries(a))
        /\ an[a].done[1] # 1
        /\ an[a].pc = "binding"
        /\ an[a].idx > Len(BatchEntries(a))
        /\ \A i \in 1..Len(BatchEntries(a)) : Bound(BatchEntries(a)[i][1])

\* C2: no two analyses were ever started for equal keys (so at most one is in
\* flight and the body runs once per key), every requester waits on the one
\* analysis of its key, and requesters of equal keys that have a result have
\* the same result.
C2_Coalesced ==
    /\ \A a, b \in Analyses : a # b => an[a].key # an[b].key
    /\ \A a \in Analyses :
         Draining(a) =>
            \A i \in 1..Len(BatchEntries(a)) :
                /\ an[a].req[i] # 0 => an[an[a].req[i]].key = BatchEntries(a)[i][2]
                /\ ~an[a].vals[i].none => an[a].vals[i].v = an[an[a].req[i]].result
    /\ \A e \in 1..Len(ext) :
         /\ an[ext[e].inst].key = ext[e].key
         /\ ~ext[e].res.none => ext[e].res.v = an[ext[e].inst].result
    /\ \A p, q \in 1..Len(promises) :
         (Bound(p) /\ Bound(q) /\ promises[p].key = promises[q].key)
            => promises[p].val = promises[q].val

\* two entries of one batch with equal keys, registered with the attributes
\* in different orders, both resolved to the result of the same analysis
C2_Witness ==
    \E a \in Analyses :
        /\ Draining(a)
        /\ \E i, j \in 1..Len(BatchEntries(a)) :
             /\ i # j
             /\ BatchEntries(a)[i][2] = BatchEntries(a)[j][2]
             /\ ~an[a].vals[i].none /\ ~an[a].vals[j].none
             /\ an[a].vals[i].v.ok
             /\ an[a].req[i] = an[a].req[j]

\* C3: a register call that fails leaves the registry as it was: nothing is
\* appended, and a following get_promises returns what it would have
\* returned before the call.
C3_FailedRegisterAddsNothing ==
    (~lastCall.none /\ lastCall.op = "register" /\ ~lastCall.res.ok) =>
        /\ lastCall.post = lastCall.pre
        /\ an[lastCall.a].reg = lastCall.pre
        /\ get_promises(an[lastCall.a].reg) = get_promises(lastCall.pre)

\* a register call that failed on a registry with a pending entry
C3_Witness ==
    /\ ~lastCall.none /\ lastCall.op = "register" /\ ~lastCall.res.ok
    /\ lastCall.res.err = "UnknownAttribute"
    /\ lastCall.pre.entries # <<>>

\* C4: while a batch is being drained no step changes it, and a register call
\* made during the drain appends its entry to the live registry.
C4_BatchNeverMutated ==
    [][\A a \in Analyses :
          (Draining(a) /\ ~an'[a].batch.none) =>
              /\ an'[a].batch = an[a].batch
              /\ (~lastCall'.none /\ lastCall'.op = "register" /\ lastCall'.a = a
                  /\ lastCall'.res.ok) =>
                    /\ Len(an'[a].reg.entries) = Len(an[a].reg.entries) + 1
                    /\ SubSeq(an'[a].reg.entries, 1, Len(an[a].reg.entries))
                         = an[a].reg.entries
                    /\ an'[a].reg.entries[Len(an'[a].reg.entries)][1]
                         = lastCall'.promise]_vars

\* a register call from a promise callback succeeded while its analysis was
\* draining a batch
C4_Witness ==
    /\ ~lastCall.none /\ lastCall.op = "register" /\ lastCall.res.ok
    /\ Draining(lastCall.a)
    /\ an[lastCall.a].pc = "binding"
    /\ an[lastCall.a].idx > 1
    /\ lastCall.post.entries # <<>>

\* C5: get_promises on an empty registry returns nothing and leaves it as it
\* is; on a non-empty one it returns the pending entries in order with the
\* registry's platform and leaves the registry empty with the same platform.
C5_GetPromises ==
    (~lastCall.none /\ lastCall.op = "get_promises") =>
        /\ an[lastCall.a].reg = lastCall.post
        /\ IF lastCall.pre.entries = <<>>
           THEN lastCall.out.none /\ lastCall.post = lastCall.pre
           ELSE /\ ~lastCall.out.none
                /\ lastCall.out.v.entries = lastCall.pre.entries
                /\ lastCall.out.v.execution_platform = lastCall.pre.execution_platform
                /\ lastCall.post.entries = <<>>
                /\ lastCall.post.execution_platform = lastCall.pre.execution_platform
                /\ an[lastCall.a].batch = lastCall.out

\* get_promises has swapped out a registry of two pending entries
C5_Witness ==
    /\ ~lastCall.none /\ lastCall.op = "get_promises"
    /\ Len(lastCall.pre.entries) >= 2
    /\ ~lastCall.out.none

\* C6: once the resolution of a key of a batch has failed, run_promises has
\* failed and no promise of the batch is bound, also not those whose keys
\* resolved successfully.
C6_FailedResolutionBindsNothing ==
    \A a \in Analyses :
        (Draining(a) /\ \E i \in 1..Len(an[a].vals) :
                            ~an[a].vals[i].none /\ ~an[a].vals[i].v.ok) =>
            /\ an[a].pc = "failed"
            /\ ~an[a].result.ok
            /\ \A i \in 1..Len(BatchEntries(a)) : ~Bound(BatchEntries(a)[i][1])

\* a batch in which one key resolved successfully and another failed
C6_Witness ==
    \E a \in Analyses :
        /\ Draining(a)
        /\ \E i, j \in 1..Len(an[a].vals) :
             /\ ~an[a].vals[i].none /\ ~an[a].vals[i].v.ok
             /\ ~an[a].vals[j].none /\ an[a].vals[j].v.ok

\* the promises of analysis a that are in neither its registry nor its batch
Drained(a) ==
    {p \in 1..Len(promises) :
        /\ promises[p].owner = a
        /\ \A i \in 1..Len(an[a].reg.entries) : an[a].reg.entries[i][1] # p
        /\ Draining(a) => \A i \in 1..Len(BatchEntries(a)) : BatchEntries(a)[i][1] # p}

\* C7: no promise is resolved twice, a resolved promise holds the provider
\* collection of its own key, and when run_promises has succeeded on a batch
\* every promise of the batch is resolved once.
C7_ResolvedOnce ==
    /\ \A p \in 1..Len(promises) :
         /\ promises[p].n <= 1
         /\ Bound(p) <=> promises[p].n = 1
         /\ Bound(p) => promises[p].val.v.key = promises[p].key
    /\ \A a \in Analyses :
         /\ (Draining(a) /\ an[a].pc = "binding" /\ an[a].idx > Len(BatchEntries(a))) =>
               \A i \in 1..Len(BatchEntries(a)) :
                   /\ promises[BatchEntries(a)[i][1]].n = 1
                   /\ promises[BatchEntries(a)[i][1]].val.v.key = BatchEntries(a)[i][2]
         /\ an[a].pc # "failed" => \A p \in Drained(a) : promises[p].n = 1

\* run_promises is about to return success on a batch of two entries with
\* different keys
C7_Witness ==
    \E a \in Analyses :
        /\ Draining(a) /\ an[a].pc = "binding"
        /\ an[a].idx > Len(BatchEntries(a))
        /\ Len(BatchEntries(a)) >= 2
        /\ BatchEntries(a)[1][2] # BatchEntries(a)[2][2]

\* C8: assert_no_promises succeeds exactly when the pending list is empty,
\* fails with AssertNoPromisesFailed otherwise, and leaves the registry as it is.
C8_AssertNoPromises ==
    (~lastCall.none /\ lastCall.op = "assert_no_promises") =>
        /\ lastCall.res.ok <=> lastCall.pre.entries = <<>>
        /\ ~lastCall.res.ok => lastCall.res.err = "AssertNoPromisesFailed"
        /\ lastCall.post = lastCall.pre
        /\ an[lastCall.a].reg = lastCall.pre

\* assert_no_promises has failed on a registry with a pending entry
C8_Witness ==
    /\ ~lastCall.none /\ lastCall.op = "assert_no_promises"
    /\ lastCall.pre.entries # <<>>
    /\ ~lastCall.res.ok

\* C9: two calls of AnonTargetKey::new with the same rule, the same platform
\* and the same name-to-value entries in any two iteration orders, when both
\* succeed, give equal keys.
C9_OrderInsensitiveKey ==
    (~kout[1].none /\ ~kout[2].none /\ kout[1].v.ok /\ kout[2].v.ok) =>
        kout[1].v.val = kout[2].v.val

\* both calls succeeded on a mapping of two generic attributes and a name
\* iterated in different orders
C9_Witness ==
    /\ ~kout[1].none /\ ~kout[2].none /\ kout[1].v.ok /\ kout[2].v.ok
    /\ Len(kin.attrs1) = 3
    /\ kin.attrs1[1][1] # kin.attrs2[1][1]
    /\ Len(kout[1].v.val.attrs) = 2

\* C10: when run_analysis reaches the freeze of its environment, and after,
\* its registry has no pending registration and every promise the analysis
\* registered, from the rule implementation or during a drain, is bound.
C10_DrainedBeforeFreeze ==
    \A a \in Analyses :
        an[a].pc \in {"freeze", "done"} =>
            /\ an[a].reg.entries = <<>>
            /\ an[a].batch.none
            /\ \A p \in 1..Len(promises) : promises[p].owner = a => Bound(p)

\* an analysis is done that registered a target from the rule implementation
\* and another from a promise callback during the drain
C10_Witness ==
    \E a \in Analyses :
        /\ an[a].pc = "done"
        /\ \E p, q \in 1..Len(promises) :
             /\ promises[p].owner = a /\ promises[p].at = "invoke"
             /\ promises[q].owner = a /\ promises[q].at = "binding"

\* C11: the comparison of two successful results of AnonTargetKey says "not
\* equal" for every pair, identical results included, so the engine reports
\* a recomputed result as changed.
C11_EqualityAlwaysFalse ==
    (kin.op = "equality" /\ ~kout.none) =>
        /\ kout.v = FALSE
        /\ kout.changed = TRUE

\* two identical successful results have been compared
C11_Witness ==
    /\ kin.op = "equality" /\ ~kout.none
    /\ kin.x = kin.y
    /\ kin.x.ok

\* package:name with a well-formed package path and a valid target name
FormRel(r) ==
    \E j \in 1..Len(r) :
        /\ r[j] = ":"
        /\ \A k \in 1..(j - 1) : r[k] # ":"
        /\ IsForwardRelativePath(SubSeq(r, 1, j - 1))
        /\ TargetName_new(SubSeq(r, j + 1, Len(r))).ok

\* cell//package:name, the cell being the text before the first "//"
FormCell(x) ==
    /\ FindSub(x, SLASH2) # 0
    /\ FormRel(SubSeq(x, FindSub(x, SLASH2) + 2, Len(x)))

ParsedText == kin.op = "parse_target_label" /\ ~kout.none

\* C12 as stated: every text of the form [cell//]package:name parses to a
\* label whose string form is the text, and a text with no package
\* qualifier or with an empty target name fails.
C12_RoundTripAsStated ==
    ParsedText =>
        /\ (FormCell(kin.text) \/ FormRel(kin.text)) =>
              (kout.v.ok /\ TargetLabel_to_string(kout.v.val) = kin.text)
        /\ (\A i \in 1..Len(kin.text) : kin.text[i] # ":") => ~kout.v.ok
        /\ (kin.text # <<>> /\ kin.text[Len(kin.text)] = ":") => ~kout.v.ok

\* C12 amended: a text cell//package:name (the cell possibly empty) parses
\* to a label whose string form is the text; a text package:name without
\* "//" parses to the label of the default cell, whose string form is "//"
\* followed by the text; a text with no ":" or ending in ":" fails.
C12_RoundTrip ==
    ParsedText =>
        /\ FormCell(kin.text) =>
              (kout.v.ok /\ TargetLabel_to_string(kout.v.val) = kin.text)
        /\ FormRel(kin.text) =>
              (kout.v.ok /\ TargetLabel_to_string(kout.v.val) = SLASH2 \o kin.text)
        /\ (\A i \in 1..Len(kin.text) : kin.text[i] # ":") => ~kout.v.ok
        /\ (kin.text # <<>> /\ kin.text[Len(kin.text)] = ":") => ~kout.v.ok

\* "f//f:f" has been parsed to a label with the cell f
C12_Witness ==
    /\ ParsedText
    /\ kin.text = <<"f", "/", "/", "f", ":", "f">>
    /\ kout.v.ok
    /\ kout.v.val.cell = <<"f">>

\* C13 as stated: every text that is not one concrete target-in-package
\* fails with NotTargetLabel carrying the text.
C13_NotTargetLabelAsStated ==
    (ParsedText /\ ~FormCell(kin.text) /\ ~FormRel(kin.text)) =>
        kout.v = Err("NotTargetLabel", kin.text)

\* C14: each of the four resolutions of the restricted context fails with
\* CantParseDuringCoerce carrying the text, and register with a string for
\* the label-typed attribute fails with that error and leaves the registry
\* as it was, while a label value for the same attribute registers.
C14_CantParseDuringCoerce ==
    /\ (kin.op = "coerce" /\ ~kout.none) =>
          kout.v = Err("CantParseDuringCoerce", kin.text)
    /\ (kin.op = "register" /\ ~kout.none) =>
          IF \E i \in 1..Len(kin.attrs) :
                kin.attrs[i][1] = "dep" /\ kin.attrs[i][2].t = "string"
          THEN /\ kout.v.res = Err("CantParseDuringCoerce", kin.text)
               /\ kout.v.self = kin.reg
          ELSE /\ kout.v.res.ok
               /\ Len(kout.v.self.entries) = Len(kin.reg.entries) + 1

\* register was called on a registry with a pending entry, with the text
\* "f:f" for the label-typed attribute, and failed
C14_Witness ==
    /\ kin.op = "register" /\ ~kout.none
    /\ kin.reg.entries # <<>>
    /\ kin.text = <<"f", ":", "f">>
    /\ Len(kin.attrs) = 2
    /\ ~kout.v.res.ok

\* the entries the j-th call of AnonTargetKey::new was given
KeyInput(j) == IF j = 1 THEN kin.attrs1 ELSE kin.attrs2

\* C16: a key built by AnonTargetKey::new has no "name" among its attributes
\* and no attribute twice; its attributes are the entries of the input other
\* than "name", all of them in the rule's schema; a "name" entry gives the
\* label and nothing else, also when the schema has no "name"; an input
\* with an entry other than "name" that the schema lacks gives no key.
C16_NameNeverGeneric ==
    \A j \in 1..2 :
        ~kout[j].none =>
            LET entries == KeyInput(j)
                r == kout[j].v
                schema == DOMAIN attributes(kin.rule)
            IN /\ r.ok =>
                    /\ \A i \in 1..Len(r.val.attrs) :
                          /\ r.val.attrs[i][1] # "name"
                          /\ r.val.attrs[i][1] \in schema
                    /\ \A i, l \in 1..Len(r.val.attrs) :
                          i # l => r.val.attrs[i][1] # r.val.attrs[l][1]
                    /\ {r.val.attrs[i][1] : i \in 1..Len(r.val.attrs)}
                          = {entries[i][1] : i \in 1..Len(entries)} \ {"name"}
                    /\ \A i \in 1..Len(entries) :
                          entries[i][1] = "name" =>
                              coerce_name(entries[i][2]) = Ok(r.val.name)
                    /\ (\A i \in 1..Len(entries) : entries[i][1] # "name") =>
                          create_name(rule_type(kin.rule)) = Ok(r.val.name)
               /\ (\E i \in 1..Len(entries) :
                      entries[i][1] \notin schema \cup {"name"}) => ~r.ok
               /\ (Len(entries) = 1 /\ entries[1][1] = "name"
                   /\ coerce_name(entries[1][2]).ok) => r.ok

\* a key has been built from a mapping with a "name" given as a string and
\* two generic attributes, the "name" not being the first entry
C16_Witness ==
    \E j \in 1..2 :
        /\ ~kout[j].none /\ kout[j].v.ok
        /\ Len(KeyInput(j)) = 3
        /\ KeyInput(j)[2][1] = "name"
        /\ KeyInput(j)[2][2].t = "string"
        /\ Len(kout[j].v.val.attrs) = 2

\* C15: when a promise of a batch being drained is bound, or the binding
\* loop has started, every key of the batch has been requested and has
\* resolved successfully.
C15_ResolveAllBeforeBind ==
    \A a \in Analyses :
        (Draining(a)
         /\ (an[a].pc = "binding"
             \/ \E i \in 1..Len(BatchEntries(a)) : Bound(BatchEntries(a)[i][1]))) =>
            \A i \in 1..Len(BatchEntries(a)) :
                /\ an[a].req[i] # 0
                /\ ~an[a].vals[i].none
                /\ an[a].vals[i].v.ok
                /\ Finished(an[a].req[i])

\* the first promise of a batch of two is bound and the second is not yet,
\* the second key having finished resolving before the first
C15_Witness ==
    \E a \in Analyses :
        /\ Draining(a)
        /\ Len(BatchEntries(a)) = 2
        /\ an[a].pc = "binding"
        /\ an[a].idx = 2
        /\ an[a].done = <<2, 1>>
        /\ Bound(BatchEntries(a)[1][1])
        /\ ~Bound(BatchEntries(a)[2][1])

\* the promises in the environment of analysis a: those in its registry and
\* in the batch it drains
EnvPromises(a) ==
    {an[a].reg.entries[i][1] : i \in 1..Len(an[a].reg.entries)}
    \cup (IF Draining(a)
          THEN {BatchEntries(a)[i][1] : i \in 1..Len(BatchEntries(a))}
          ELSE {})

Places ==
    {<<a, 1, i>> : a \in Analyses, i \in 1..MaxPromises + 1} \cup
    {<<a, 2, i>> : a \in Analyses, i \in 1..MaxPromises + 1}

HeldAt(p) ==
    {pl \in Places :
        LET a == pl[1]
            es == IF pl[2] = 1 THEN an[a].reg.entries
                  ELSE IF Draining(a) THEN BatchEntries(a) ELSE <<>>
        IN pl[3] <= Len(es) /\ es[pl[3]][1] = p}

\* C18: every successful registration is held once, in the registry or the
\* batch of the analysis that made it, with the key it was registered with,
\* until run_promises has returned success on its batch (it is bound then);
\* registry and batch each hold their registrations in registration order,
\* those of the batch being older than those of the registry.
C18_HeldInOnePlace ==
    /\ \A p \in 1..Len(promises) :
         /\ Cardinality(HeldAt(p)) <= 1
         /\ HeldAt(p) = {} => Bound(p)
         /\ \A pl \in HeldAt(p) :
               /\ pl[1] = promises[p].owner
               /\ (IF pl[2] = 1 THEN an[pl[1]].reg.entries
                   ELSE BatchEntries(pl[1]))[pl[3]][2] = promises[p].key
    /\ \A a \in Analyses :
         /\ \A i, j \in 1..Len(an[a].reg.entries) :
               i < j => an[a].reg.entries[i][1] < an[a].reg.entries[j][1]
         /\ Draining(a) =>
               /\ \A i, j \in 1..Len(BatchEntries(a)) :
                     i < j => BatchEntries(a)[i][1] < BatchEntries(a)[j][1]
               /\ \A i \in 1..Len(BatchEntries(a)), j \in 1..Len(an[a].reg.entries) :
                     BatchEntries(a)[i][1] < an[a].reg.entries[j][1]

\* an analysis holds a registration in the batch it drains and a newer one
\* in its registry
C18_Witness ==
    \E a \in Analyses :
        /\ Draining(a)
        /\ Len(BatchEntries(a)) >= 1
        /\ Len(an[a].reg.entries) >= 1

\* C19: when every key of a batch has resolved successfully and the analysis
\* has an error, run_promises has stopped at the entry idx whose binding
\* failed: the promises before it are bound and those after it are not.
C19_BindFailureStops ==
    \A a \in Analyses :
        (/\ Draining(a)
         /\ \A i \in 1..Len(an[a].vals) : ~an[a].vals[i].none /\ an[a].vals[i].v.ok
         /\ an[a].result # None /\ ~an[a].result.ok) =>
            /\ an[a].pc = "failed"
            /\ an[a].idx \in 1..Len(BatchEntries(a))
            /\ \A i \in 1..Len(BatchEntries(a)) :
                  /\ i < an[a].idx => Bound(BatchEntries(a)[i][1])
                  /\ i > an[a].idx => ~Bound(BatchEntries(a)[i][1])

\* binding the first promise of a batch of two has failed; the second is
\* not bound
C19_Witness ==
    \E a \in Analyses :
        /\ Draining(a)
        /\ Len(BatchEntries(a)) = 2
        /\ \A i \in 1..2 : ~an[a].vals[i].none /\ an[a].vals[i].v.ok
        /\ an[a].pc = "failed"
        /\ an[a].idx = 1
        /\ ~Bound(BatchEntries(a)[2][1])

\* the analyses a waits for: those it has requested and has no value of
Waits(a) ==
    {an[a].req[i] : i \in {j \in 1..Len(an[a].req) :
                              an[a].req[j] # 0 /\ an[a].vals[j].none}}

\* the analyses reached from those of S along Waits in at most n steps
RECURSIVE WaitsClosure(_, _)
WaitsClosure(S, n) ==
    IF n = 0 THEN S
    ELSE WaitsClosure(S \cup UNION {Waits(b) : b \in S}, n - 1)

\* a waits, directly or through nested analyses, for an analysis that
\* waits for itself
WaitsOnCycle(a) ==
    /\ a \in Analyses
    /\ \E b \in WaitsClosure({a}, MaxAnalyses) :
          b \in WaitsClosure(Waits(b), MaxAnalyses)

\* a is inside a run_promises call
InRunPromises(a) ==
    a \in Analyses /\ Draining(a) /\ an[a].pc \in {"resolving", "binding"}

\* the run_promises call of a is over: every promise of the batch is bound,
\* or the call has failed
RunPromisesOver(a) ==
    /\ a \in Analyses
    /\ \/ an[a].pc = "failed"
       \/ /\ Draining(a) /\ an[a].pc = "binding"
          /\ an[a].idx > Len(BatchEntries(a))
          /\ \A i \in 1..Len(BatchEntries(a)) : Bound(BatchEntries(a)[i][1])

\* C20: the engine always has room for the analysis of a new key (the bound
\* on analyses never blocks a request); an analysis that has requested its
\* own key never gets its value and stays in the resolution phase unless
\* another key fails; and every run_promises call ends with all promises of
\* the batch bound or with a failure, unless it comes to wait on an analysis
\* that waits for itself.
C20_RunPromisesEnds ==
    /\ [](\A a \in Analyses :
            Draining(a) =>
                \A i \in 1..Len(an[a].req) :
                    /\ (an[a].req[i] = 0 /\ MemoGet(BatchEntries(a)[i][2]) = 0)
                          => Len(an) < MaxAnalyses
                    /\ an[a].req[i] = a =>
                          /\ an[a].vals[i].none
                          /\ an[a].pc \in {"resolving", "failed"}
                          /\ BatchEntries(a)[i][2] = an[a].key)
    /\ \A a \in 1..MaxAnalyses :
          InRunPromises(a) ~> (RunPromisesOver(a) \/ WaitsOnCycle(a))

\* a run_promises call has bound its promise to the result of an analysis
\* that had itself run a batch to the end
C20_Witness ==
    \E a, b \in Analyses :
        /\ a # b
        /\ Draining(a) /\ RunPromisesOver(a) /\ an[a].pc = "binding"
        /\ \E i \in 1..Len(an[a].req) : an[a].req[i] = b
        /\ \E p \in 1..Len(promises) : promises[p].owner = b /\ Bound(p)

====
